---------------------------- MODULE Spec2Model ----------------------------
(***************************************************************************)
(* Model of the team tracker repository:                                   *)
(*   - scripts/check_boundaries.py, the hexagonal boundary checker         *)
(*     (specification Spec);                                               *)
(*   - domain/entities/task.py and value_objects/task_status.py, the Task  *)
(*     entity and its status rules (specification SpecTask);               *)
(*   - the create-task use case, its DTOs, the in-memory repository and    *)
(*     tests/unit/test_create_task.py (specification SpecCreate).          *)
(***************************************************************************)
EXTENDS Integers, Sequences, FiniteSets, TLC

VARIABLES
    \* ---- check_boundaries.py ----
    project_root,     \* parts of Path(sys.argv[1]) (or of Path.cwd())
    src_exists,       \* whether <project_root>/backend/src exists
    tree,             \* the files under backend/src, in rglob's traversal order
    pc,               \* "start" before main() runs, "exited" after
    checked,          \* the paths handed to check_file, in call order
    all_violations,   \* main()'s all_violations list
    stdout,           \* the lines main() printed
    exit_code,        \* the process's exit status
    \* ---- Task entity ----
    task,             \* the Task dataclass instance
    last_call,        \* the method called last on it
    raised,           \* whether that call raised ValueError
    prev_status,      \* task.status before that call
    \* ---- create-task use case ----
    dto,              \* the CreateTaskDto handed to execute()
    new_id,           \* what uuid4() returns inside TaskId.generate()
    repo_tasks,       \* InMemoryTaskRepository.tasks: id -> Task
    response,         \* what execute() returned
    outcome           \* "pending", "returned", or the exception that ended the run

checkerVars == <<project_root, src_exists, tree, pc, checked, all_violations,
                 stdout, exit_code>>
taskVars    == <<task, last_call, raised, prev_status>>
createVars  == <<dto, new_id, repo_tasks, response, outcome>>
vars        == <<checkerVars, taskVars, createVars>>

\* Python's None (never a valid module or identifier name).
None == "None"

(***************************************************************************)
(* Bounds                                                                  *)
(***************************************************************************)
\* The largest number of files under backend/src.
MaxFiles == 2

(***************************************************************************)
(* Strings and sequences                                                   *)
(***************************************************************************)
\* str.startswith
startswith(s, p) == Len(p) <= Len(s) /\ SubSeq(s, 1, Len(p)) = p

\* The tail test fnmatch performs for the pattern "*<suffix>".
endswith(s, x) == Len(x) <= Len(s) /\ SubSeq(s, Len(s) - Len(x) + 1, Len(s)) = x

\* `x in parts`
In(x, parts) == \E i \in 1..Len(parts) : parts[i] = x

RECURSIVE SumLines(_, _)
RECURSIVE JoinParts(_)
RECURSIVE visit(_, _)
RECURSIVE generic_visit(_, _)
RECURSIVE collect(_)

(***************************************************************************)
(* ast.parse: the source text of a file is a sequence of statements; the   *)
(* parser numbers lines from 1 and raises SyntaxError at the first         *)
(* malformed statement.                                                    *)
(***************************************************************************)
\* from <module> import x            (also "import x as y": the same node)
StFrom(m)   == [form |-> "from", module |-> m]
\* from . import x                   (node.module is None)
StFromRel   == [form |-> "from_rel", module |-> None]
\* import <module>
StImport(m) == [form |-> "import", module |-> m]
\* if TYPE_CHECKING:
\*     from <module> import x        (a conditional, nested import: two lines)
StIfFrom(m) == [form |-> "if_from", module |-> m]
\* a line the parser rejects
StMalformed == [form |-> "malformed", module |-> None]

\* The number of source lines a statement takes.
StmtLines(st) == IF st.form = "if_from" THEN 2 ELSE 1

\* The lines taken by the first n statements of text.
SumLines(text, n) ==
    IF n = 0 THEN 0 ELSE SumLines(text, n - 1) + StmtLines(text[n])

\* The 1-based line on which statement i of text starts.
LineOf(text, i) == 1 + SumLines(text, i - 1)

\* The AST node of one statement starting at line.
Node(st, line) ==
    CASE st.form = "from"     -> [type |-> "ImportFrom", module |-> st.module,
                                  lineno |-> line, body |-> <<>>]
      [] st.form = "from_rel" -> [type |-> "ImportFrom", module |-> None,
                                  lineno |-> line, body |-> <<>>]
      [] st.form = "import"   -> [type |-> "Import", module |-> st.module,
                                  lineno |-> line, body |-> <<>>]
      [] st.form = "if_from"  -> [type |-> "If", module |-> None, lineno |-> line,
                                  body |-> << [type |-> "ImportFrom",
                                               module |-> st.module,
                                               lineno |-> line + 1,
                                               body |-> <<>>] >>]

Malformed(text) == {i \in 1..Len(text) : text[i].form = "malformed"}

\* ast.parse(content): the Module node, or the SyntaxError raised.
ast_parse(text) ==
    IF Malformed(text) # {}
    THEN LET i == CHOOSE k \in Malformed(text) : \A j \in Malformed(text) : k <= j
         IN  [error |-> TRUE, lineno |-> LineOf(text, i), msg |-> "invalid syntax",
              tree |-> [type |-> "Module", module |-> None, lineno |-> 0,
                        body |-> <<>>]]
    ELSE [error |-> FALSE, lineno |-> 0, msg |-> "",
          tree |-> [type |-> "Module", module |-> None, lineno |-> 0,
                    body |-> [i \in 1..Len(text) |-> Node(text[i], LineOf(text, i))]]]

(***************************************************************************)
(* BoundaryViolation and BoundaryChecker                                   *)
(***************************************************************************)
BoundaryViolation(file_path, line, message) ==
    [file_path |-> file_path, line |-> line, message |-> message]

\* str(Path): the parts of an absolute path joined by "/".
JoinParts(parts) ==
    IF parts = <<>> THEN "" ELSE "/" \o Head(parts) \o JoinParts(Tail(parts))

\* BoundaryViolation.__str__
ViolationStr(v) ==
    JoinParts(v.file_path) \o ":" \o ToString(v.line) \o " - " \o v.message

frameworks     == <<"fastapi", "sqlalchemy", "requests", "pydantic">>
infrastructure == <<"sqlalchemy", "requests", "redis", "boto3">>

is_domain_layer(file_path)      == In("domain", file_path)
is_application_layer(file_path) == In("application", file_path)

is_framework_import(module) ==
    \E i \in 1..Len(frameworks) : startswith(module, frameworks[i])

is_infrastructure_import(module) ==
    \E i \in 1..Len(infrastructure) : startswith(module, infrastructure[i])

DomainMessage      == "Domain layer importing framework: "
ApplicationMessage == "Application layer importing infrastructure: "

\* visit_ImportFrom with the layers tested as if/elif: the first layer found
\* in the path wins.
visit_ImportFrom_elif(file_path, node) ==
    IF node.module = None THEN <<>>
    ELSE (IF is_domain_layer(file_path)
          THEN (IF is_framework_import(node.module)
                THEN << BoundaryViolation(file_path, node.lineno,
                                          DomainMessage \o node.module) >>
                ELSE <<>>)
          ELSE IF is_application_layer(file_path)
                  /\ is_infrastructure_import(node.module)
          THEN << BoundaryViolation(file_path, node.lineno,
                                    ApplicationMessage \o node.module) >>
          ELSE <<>>)
         \o generic_visit(file_path, node)

\* The violations visit_ImportFrom appends for node, in append order,
\* followed by those of generic_visit(node).
visit_ImportFrom(file_path, node) ==
    IF node.module = None THEN <<>>
    ELSE (IF is_domain_layer(file_path) /\ is_framework_import(node.module)
          THEN << BoundaryViolation(file_path, node.lineno,
                                    DomainMessage \o node.module) >>
          ELSE <<>>)
         \o
         (IF is_application_layer(file_path) /\ is_infrastructure_import(node.module)
          THEN << BoundaryViolation(file_path, node.lineno,
                                    ApplicationMessage \o node.module) >>
          ELSE <<>>)
         \o generic_visit(file_path, node)

\* ast.NodeVisitor.generic_visit: visit the child nodes in field order.
generic_visit(file_path, node) ==
    IF node.body = <<>> THEN <<>>
    ELSE visit(file_path, Head(node.body))
         \o generic_visit(file_path, [node EXCEPT !.body = Tail(node.body)])

\* ast.NodeVisitor.visit: visit_<type> when the checker defines it, else
\* generic_visit. BoundaryChecker defines visit_ImportFrom only.
visit(file_path, node) ==
    IF node.type = "ImportFrom" THEN visit_ImportFrom(file_path, node)
    ELSE generic_visit(file_path, node)

\* An entry of the tree: its path below backend/src, whether it is a regular
\* file or a directory, whether open() and read() succeed, and its text.
FullPath(f) == project_root \o <<"backend", "src">> \o f.rel

\* check_file reporting what was seen before the syntax error as well.
check_file_partial(f) ==
    IF f.kind = "dir"
    THEN << BoundaryViolation(FullPath(f), 0,
                              "Error checking file: Is a directory") >>
    ELSE IF ~f.readable
    THEN << BoundaryViolation(FullPath(f), 0,
                              "Error checking file: Permission denied") >>
    ELSE LET parsed == ast_parse(f.text)
         IN  IF parsed.error
             THEN LET i == CHOOSE k \in Malformed(f.text) :
                               \A j \in Malformed(f.text) : k <= j
                  IN  visit(FullPath(f), ast_parse(SubSeq(f.text, 1, i - 1)).tree)
                      \o << BoundaryViolation(FullPath(f), parsed.lineno,
                                              "Syntax error: " \o parsed.msg) >>
             ELSE visit(FullPath(f), parsed.tree)

check_file(f) ==
    IF f.kind = "dir"
    THEN << BoundaryViolation(FullPath(f), 0,
                              "Error checking file: Is a directory") >>
    ELSE IF ~f.readable
    THEN << BoundaryViolation(FullPath(f), 0,
                              "Error checking file: Permission denied") >>
    ELSE LET parsed == ast_parse(f.text)
         IN  IF parsed.error
             THEN << BoundaryViolation(FullPath(f), parsed.lineno,
                                       "Syntax error: " \o parsed.msg) >>
             ELSE visit(FullPath(f), parsed.tree)

(***************************************************************************)
(* main                                                                    *)
(***************************************************************************)
\* src_path.rglob("*.py"): the entries whose name matches, files and
\* directories alike, in traversal order.
rglob(entries) == SelectSeq(entries, LAMBDA f : endswith(f.rel[Len(f.rel)], ".py"))

\* The loop of main putting each file's violations in front of the list.
collect_prepend(files) ==
    IF files = <<>> THEN <<>>
    ELSE collect(Tail(files)) \o check_file(Head(files))

\* The loop of main: all_violations.extend(check_file(file_path)) per file.
collect(files) ==
    IF files = <<>> THEN <<>>
    ELSE check_file(Head(files)) \o collect(Tail(files))

\* The lines and the exit status main ends with, given all_violations.
report_lines(violations) ==
    IF violations # <<>>
    THEN <<"Boundary violations detected:">>
         \o [i \in 1..Len(violations) |-> "  " \o ViolationStr(violations[i])]
    ELSE <<"No boundary violations found">>

\* main without its sys.exit(1).
report_exit_zero(violations) == 0

report_exit(violations) == IF violations # <<>> THEN 1 ELSE 0

main ==
    /\ pc = "start"
    /\ pc' = "exited"
    /\ IF ~src_exists
       THEN /\ stdout' = <<"No src directory found at "
                           \o JoinParts(project_root \o <<"backend", "src">>)>>
            /\ exit_code' = 1
            /\ UNCHANGED <<checked, all_violations>>
       ELSE LET python_files == rglob(tree) IN
            IF python_files = <<>>
            THEN /\ stdout' = <<"No Python files found to check">>
                 /\ exit_code' = 0
                 /\ UNCHANGED <<checked, all_violations>>
            ELSE /\ checked' = [i \in 1..Len(python_files) |-> FullPath(python_files[i])]
                 /\ all_violations' = collect(python_files)
                 /\ stdout' = report_lines(all_violations')
                 /\ exit_code' = report_exit(all_violations')
    /\ UNCHANGED <<project_root, src_exists, tree>>
    /\ UNCHANGED <<taskVars, createVars>>

(***************************************************************************)
(* The trees main is run on                                                *)
(***************************************************************************)
Roots == { <<"srv", "tracker">>, <<"home", "domain", "tracker">> }

RelPaths == { <<"domain", "entities", "task.py">>,
              <<"application", "dtos", "task.py">>,
              <<"domain", "application", "rules.py">>,
              <<"adapters", "persistence", "repo.py">>,
              <<"domain", "notes.txt">>,
              <<"adapters", "legacy.py">> }

\* The paths that are directories (empty ones: rglob finds nothing below).
DirPaths == { <<"adapters", "legacy.py">> }

Texts == { <<>>,
           << StFrom("fastapi") >>,
           << StImport("fastapi") >>,
           << StFrom("requestsx") >>,
           << StFrom("os"), StIfFrom("sqlalchemy.orm"), StFrom("redis") >>,
           << StFrom("requests"), StMalformed >>,
           << StFromRel, StFrom("requests") >> }

Contents == { [kind |-> "file", readable |-> TRUE, text |-> t] : t \in Texts }
            \cup { [kind |-> "file", readable |-> FALSE,
                    text |-> << StFrom("fastapi") >>] }

\* A file that is not Python source is given one text: main never opens it.
ContentsOf(rel) ==
    IF rel \in DirPaths THEN { [kind |-> "dir", readable |-> FALSE, text |-> <<>>] }
    ELSE IF endswith(rel[Len(rel)], ".py") THEN Contents
    ELSE { [kind |-> "file", readable |-> TRUE, text |-> << StFrom("requests") >>] }

\* The lists of distinct paths rglob may walk, in any traversal order.
PathLists ==
    UNION { { p \in [1..n -> RelPaths] : \A i, j \in 1..n : i # j => p[i] # p[j] } :
            n \in 0..MaxFiles }

TreesOn(paths) ==
    { [i \in DOMAIN paths |-> [rel |-> paths[i], kind |-> cs[i].kind,
                               readable |-> cs[i].readable, text |-> cs[i].text]] :
      cs \in { c \in [DOMAIN paths -> UNION {ContentsOf(r) : r \in RelPaths}] :
               \A i \in DOMAIN paths : c[i] \in ContentsOf(paths[i]) } }

Trees == UNION { TreesOn(p) : p \in PathLists }

(***************************************************************************)
(* TaskStatus, TaskPriority, TaskId, Task                                  *)
(***************************************************************************)
NOT_STARTED == "not_started"
IN_PROGRESS == "in_progress"
COMPLETED   == "completed"
TaskStatus  == {NOT_STARTED, IN_PROGRESS, COMPLETED}

valid_transitions(status) ==
    CASE status = NOT_STARTED -> {IN_PROGRESS}
      [] status = IN_PROGRESS -> {COMPLETED}
      [] status = COMPLETED   -> {}
      [] OTHER                -> {}

can_transition_to(self, new_status) == new_status \in valid_transitions(self)

\* TaskPriority: member name -> value.
TaskPriorityNames == {"UNASSIGNED", "LOW", "MEDIUM", "HIGH", "CRITICAL"}
TaskPriorityValue(name) ==
    CASE name = "UNASSIGNED" -> "unassigned"
      [] name = "LOW"        -> "low"
      [] name = "MEDIUM"     -> "medium"
      [] name = "HIGH"       -> "high"
      [] name = "CRITICAL"   -> "critical"

Whitespace == {" ", "\t", "\n"}

\* not s.strip()
IsBlank(s) == \A i \in 1..Len(s) : SubSeq(s, i, i) \in Whitespace

\* Task.__post_init__: whether the constructor raises ValueError.
post_init_raises(title, description) ==
    \/ IsBlank(title)
    \/ (description # None /\ IsBlank(description))

Task(id, title, description, status, priority) ==
    [id |-> id, title |-> title, status |-> status, priority |-> priority,
     description |-> description, assignee_id |-> None]

\* The record every call on the task leaves behind.
Called(name, did_raise) ==
    /\ last_call' = name
    /\ raised' = did_raise
    /\ prev_status' = task.status
    /\ UNCHANGED <<checkerVars, createVars>>

assign_to(assignee_id) ==
    /\ IF assignee_id = "" \/ assignee_id = None \/ task.status = COMPLETED
       THEN task' = task /\ Called("assign_to", TRUE)
       ELSE task' = [task EXCEPT !.assignee_id = assignee_id]
            /\ Called("assign_to", FALSE)

unassign ==
    /\ task' = [task EXCEPT !.assignee_id = None]
    /\ Called("unassign", FALSE)

mark_in_progress ==
    /\ IF task.status = COMPLETED
       THEN task' = task /\ Called("mark_in_progress", TRUE)
       ELSE task' = [task EXCEPT !.status = IN_PROGRESS]
            /\ Called("mark_in_progress", FALSE)

\* mark_completed without its NOT_STARTED guard.
mark_completed_unguarded ==
    /\ task' = [task EXCEPT !.status = COMPLETED]
    /\ Called("mark_completed", FALSE)

mark_completed ==
    /\ IF task.status = NOT_STARTED
       THEN task' = task /\ Called("mark_completed", TRUE)
       ELSE task' = [task EXCEPT !.status = COMPLETED]
            /\ Called("mark_completed", FALSE)

Titles       == {"Test Task", "Fix login", "", "  "}
Descriptions == {None, "Try hexagonal!", "d", " "}
AssigneeIds  == {None, "", "alice", "bob"}
Ids          == {"id-1", "id-2"}

\* Every Task the constructor accepts.
Tasks ==
    { [Task(id, t, d, s, TaskPriorityValue(p)) EXCEPT !.assignee_id = a] :
      id \in {"id-1"}, t \in {x \in Titles : ~IsBlank(x)},
      d \in {x \in Descriptions : x = None \/ ~IsBlank(x)},
      s \in TaskStatus, p \in {"UNASSIGNED", "HIGH"}, a \in {None, "alice"} }

(***************************************************************************)
(* DTOs, InMemoryTaskRepository, CreateTaskUseCase                         *)
(***************************************************************************)
\* str.upper on ASCII letters.
LowerLetters == "abcdefghijklmnopqrstuvwxyz"
UpperLetters == "ABCDEFGHIJKLMNOPQRSTUVWXYZ"

UpperChar(c) ==
    IF \E i \in 1..Len(LowerLetters) : SubSeq(LowerLetters, i, i) = c
    THEN LET i == CHOOSE k \in 1..Len(LowerLetters) : SubSeq(LowerLetters, k, k) = c
         IN  SubSeq(UpperLetters, i, i)
    ELSE c

RECURSIVE upper(_)
upper(s) ==
    IF Len(s) = 0 THEN ""
    ELSE UpperChar(SubSeq(s, 1, 1)) \o upper(SubSeq(s, 2, Len(s)))

\* The names application/dtos/task.py binds at module level.
dtos_module_names ==
    {"dataclass", "Optional", "TaskPriority", "Task",
     "CreateTaskDTO", "TaskResponseDto", "from_domain"}

\* The names the test and the use case import from application.dtos.task.
imported_dto_names == {"CreateTaskDto", "TaskResponseDto"}

\* The attributes the class body of TaskResponseDto defines.
TaskResponseDto_attrs ==
    {"task_id", "status", "title", "description", "priority", "assignee_id"}

\* A priority handed to the DTO: None, a str, or a TaskPriority member.
PrNone      == [kind |-> "none", v |-> None]
PrStr(x)    == [kind |-> "str", v |-> x]
PrMember(n) == [kind |-> "member", v |-> n]

DtoPriorities ==
    {PrNone, PrStr("high"), PrStr("urgent")} \cup {PrMember(n) : n \in TaskPriorityNames}

NoResponse ==
    [task_id |-> None, status |-> None, title |-> None, description |-> None,
     priority |-> None, assignee_id |-> None]

\* Optional[Task]'s None.
NoTask == [Task(None, None, None, None, None) EXCEPT !.assignee_id = None]

\* The module-level function from_domain of application/dtos/task.py.
from_domain(t) ==
    [task_id |-> t.id, status |-> t.status, title |-> t.title,
     description |-> t.description, priority |-> t.priority,
     assignee_id |-> t.assignee_id]

\* InMemoryTaskRepository.save
save(tasks, t) ==
    [k \in DOMAIN tasks \cup {t.id} |-> IF k = t.id THEN t ELSE tasks[k]]

\* InMemoryTaskRepository.find_by_id
find_by_id(tasks, task_id) ==
    IF task_id \in DOMAIN tasks THEN tasks[task_id] ELSE NoTask

\* CreateTaskUseCase.execute: the repository it leaves, and what it returns
\* or raises.
execute(tasks, d, id) ==
    IF d.priority.kind = "str" /\ upper(d.priority.v) \notin TaskPriorityNames
    THEN [tasks |-> tasks, outcome |-> "KeyError", response |-> NoResponse]
    ELSE
    LET p1 == IF d.priority.kind = "str" THEN PrMember(upper(d.priority.v))
              ELSE d.priority
        priority == IF p1.kind = "none" THEN PrMember("UNASSIGNED") ELSE p1
    IN  IF post_init_raises(d.title, d.description)
        THEN [tasks |-> tasks, outcome |-> "ValueError", response |-> NoResponse]
        ELSE
        LET new_task == Task(id, d.title, d.description, NOT_STARTED,
                             TaskPriorityValue(priority.v))
            saved == save(tasks, new_task)
        IN  IF "from_domain" \notin TaskResponseDto_attrs
            THEN [tasks |-> saved, outcome |-> "AttributeError",
                  response |-> NoResponse]
            ELSE [tasks |-> saved, outcome |-> "returned",
                  response |-> from_domain(new_task)]

\* tests/unit/test_create_task.py: the module's imports, then the call of
\* execute on a fresh repository.
test_create_and_fetch_task ==
    /\ outcome = "pending"
    /\ IF ~(imported_dto_names \subseteq dtos_module_names)
       THEN /\ outcome' = "ImportError"
            /\ UNCHANGED <<repo_tasks, response>>
       ELSE LET r == execute(repo_tasks, dto, new_id) IN
            /\ repo_tasks' = r.tasks
            /\ outcome' = r.outcome
            /\ response' = r.response
    /\ UNCHANGED <<dto, new_id, checkerVars, taskVars>>

(***************************************************************************)
(* Specifications                                                          *)
(***************************************************************************)
CheckerIdle ==
    /\ project_root = <<"srv", "tracker">>
    /\ src_exists = FALSE
    /\ tree = <<>>
    /\ pc = "idle"
    /\ checked = <<>>
    /\ all_violations = <<>>
    /\ stdout = <<>>
    /\ exit_code = 0

TaskIdle ==
    /\ task = NoTask
    /\ last_call = None
    /\ raised = FALSE
    /\ prev_status = None

CreateIdle ==
    /\ dto = [title |-> None, description |-> None, priority |-> PrNone]
    /\ new_id = None
    /\ repo_tasks = <<>>
    /\ response = NoResponse
    /\ outcome = "idle"

\* The boundary checker, run once on any tree.
Init ==
    /\ project_root \in Roots
    /\ src_exists \in BOOLEAN
    /\ tree \in (IF src_exists THEN Trees ELSE {<<>>})
    /\ pc = "start"
    /\ checked = <<>>
    /\ all_violations = <<>>
    /\ stdout = <<>>
    /\ exit_code = 0
    /\ TaskIdle
    /\ CreateIdle

Next == main

Spec == Init /\ [][Next]_vars

\* A Task and any sequence of calls on it.
InitTask ==
    /\ task \in Tasks
    /\ last_call = None
    /\ raised = FALSE
    /\ prev_status = task.status
    /\ CheckerIdle
    /\ CreateIdle

NextTask ==
    \/ \E a \in AssigneeIds : assign_to(a)
    \/ unassign
    \/ mark_in_progress
    \/ mark_completed

SpecTask == InitTask /\ [][NextTask]_vars

\* The create-then-fetch test on any DTO.
InitCreate ==
    /\ dto \in [title : Titles, description : Descriptions, priority : DtoPriorities]
    /\ new_id \in Ids
    /\ repo_tasks = <<>>
    /\ response = NoResponse
    /\ outcome = "pending"
    /\ CheckerIdle
    /\ TaskIdle

NextCreate == test_create_and_fetch_task

SpecCreate == InitCreate /\ [][NextCreate]_vars

(***************************************************************************)
(* Properties of the boundary checker                                      *)
(***************************************************************************)
\* The path of a reported file relative to backend/src.
RelOf(v) == SubSeq(v.file_path, Len(project_root) + 3, Len(v.file_path))

IsRuleViolation(v) ==
    startswith(v.message, DomainMessage) \/ startswith(v.message, ApplicationMessage)

IsDiagnostic(v) ==
    startswith(v.message, "Syntax error: ")
        \/ startswith(v.message, "Error checking file: ")

\* The report's entries for one file, in report order.
ViolationsOf(path) == SelectSeq(all_violations, LAMBDA v : v.file_path = path)

\* The report's entries for one line of one file whose message starts with prefix.
ViolationsAt(path, line, prefix) ==
    SelectSeq(all_violations,
              LAMBDA v : v.file_path = path /\ v.line = line
                         /\ startswith(v.message, prefix))

\* The files of the tree with the source extension.
Candidates ==
    {i \in 1..Len(tree) : tree[i].kind = "file"
                          /\ endswith(tree[i].rel[Len(tree[i].rel)], ".py")}

\* The entries of the tree, of either kind, whose name has the extension.
Matching == {i \in 1..Len(tree) : endswith(tree[i].rel[Len(tree[i].rel)], ".py")}

\* A file that cannot be read or parsed.
BadFile(f) == ~f.readable \/ Malformed(f.text) # {}

\* The import declarations of a text: statement index, target and line.
ImportDecls(text) ==
    { [form |-> text[k].form, module |-> text[k].module,
       line |-> IF text[k].form = "if_from" THEN LineOf(text, k) + 1
                ELSE LineOf(text, k)] :
      k \in {n \in 1..Len(text) : text[n].form \in {"from", "import", "if_from"}} }

FromDecls(text) == {d \in ImportDecls(text) : d.form \in {"from", "if_from"}}

\* Separator-aware prefix matching.
SepMatch(t, p) == t = p \/ startswith(t, p \o ".")

\* Discovery order: a reported file's position in the traversal.
PosInTree(path) == CHOOSE i \in 1..Len(tree) : FullPath(tree[i]) = path

\* C1: main exits with status 1 exactly when backend/src is missing or at
\* least one violation or diagnostic was recorded, and with status 0 otherwise.
C1_ExitStatus ==
    pc = "exited" =>
        /\ exit_code \in {0, 1}
        /\ exit_code = 1 <=> (~src_exists \/ all_violations # <<>>)
        /\ (src_exists /\ Matching = {}) => exit_code = 0
        /\ (src_exists /\ \A i \in Matching :
                /\ tree[i].kind = "file"
                /\ ~BadFile(tree[i])
                /\ FromDecls(tree[i].text) = {}) => exit_code = 0

C1_Witness ==
    /\ pc = "exited" /\ exit_code = 1 /\ src_exists
    /\ \E i \in 1..Len(all_violations) : IsDiagnostic(all_violations[i])
    /\ \E i \in 1..Len(all_violations) : IsRuleViolation(all_violations[i])

\* C2: every import declaration of a domain-layer file whose target starts
\* with a forbidden framework prefix, in whatever syntactic form, is reported
\* as exactly one domain-rule violation on that file and line.
C2_EveryFormReported ==
    pc = "exited" =>
        \A i \in Candidates :
            (~BadFile(tree[i]) /\ In("domain", tree[i].rel)) =>
                \A d \in ImportDecls(tree[i].text) :
                    (\E k \in 1..Len(frameworks) : startswith(d.module, frameworks[k]))
                        => Len(ViolationsAt(FullPath(tree[i]), d.line, DomainMessage)) = 1

\* C3: for a visited from-import with target t in a file the checker puts in
\* a layer, that layer's rule fires exactly when t equals a forbidden prefix p
\* or starts with p followed by "."; a bare string prefix never fires.
C3_SeparatorAware ==
    pc = "exited" =>
        \A i \in Candidates :
            ~BadFile(tree[i]) =>
                \A d \in FromDecls(tree[i].text) :
                    /\ is_domain_layer(FullPath(tree[i])) =>
                         (ViolationsAt(FullPath(tree[i]), d.line, DomainMessage) # <<>>
                            <=> \E k \in 1..Len(frameworks) :
                                   SepMatch(d.module, frameworks[k]))
                    /\ is_application_layer(FullPath(tree[i])) =>
                         (ViolationsAt(FullPath(tree[i]), d.line, ApplicationMessage) # <<>>
                            <=> \E k \in 1..Len(infrastructure) :
                                   SepMatch(d.module, infrastructure[k]))

\* C4: no layer rule violation is reported for a file whose path relative to
\* the scanned root has neither a "domain" nor an "application" component,
\* wherever the root itself lives.
C4_Exemption ==
    pc = "exited" =>
        \A i \in 1..Len(all_violations) :
            IsRuleViolation(all_violations[i]) =>
                \/ In("domain", RelOf(all_violations[i]))
                \/ In("application", RelOf(all_violations[i]))

\* C5: a file that cannot be read or parsed contributes exactly one
\* diagnostic and no rule violation of its own, and every other file's
\* violations are all in the final report.
C5_BadFileOneDiagnostic ==
    pc = "exited" =>
        \A i \in Candidates :
            LET f  == tree[i]
                vs == ViolationsOf(FullPath(f))
            IN  IF BadFile(f)
                THEN Len(vs) = 1 /\ IsDiagnostic(vs[1]) /\ ~IsRuleViolation(vs[1])
                ELSE vs = visit(FullPath(f), ast_parse(f.text).tree)

C5_Witness ==
    /\ pc = "exited"
    /\ \E i, j \in Candidates :
          /\ i < j
          /\ Malformed(tree[i].text) # {}
          /\ In("domain", tree[i].rel)
          /\ \E d \in FromDecls(tree[i].text) : is_framework_import(d.module)
          /\ ~BadFile(tree[j])
          /\ \E k \in 1..Len(all_violations) :
                /\ all_violations[k].file_path = FullPath(tree[j])
                /\ IsRuleViolation(all_violations[k])

\* C6: when backend/src exists and holds no file with the source extension,
\* main exits 0 having printed only the "no files found" line and checked no
\* file.
C6_NoFilesIdle ==
    (pc = "exited" /\ src_exists /\ Candidates = {}) =>
        /\ exit_code = 0
        /\ stdout = <<"No Python files found to check">>
        /\ checked = <<>>
        /\ all_violations = <<>>

C8_ReportOrder ==
    pc = "exited" =>
        /\ \A i \in 1..Len(all_violations) :
              \E k \in 1..Len(tree) : FullPath(tree[k]) = all_violations[i].file_path
        /\ \A i, j \in 1..Len(all_violations) :
              i < j =>
                  /\ PosInTree(all_violations[i].file_path)
                        <= PosInTree(all_violations[j].file_path)
                  /\ all_violations[i].file_path = all_violations[j].file_path
                        => all_violations[i].line <= all_violations[j].line

C8_Witness ==
    /\ pc = "exited"
    /\ \E i, j, k \in 1..Len(all_violations) :
          /\ i < j /\ j < k
          /\ all_violations[i].file_path = all_violations[j].file_path
          /\ all_violations[i].line < all_violations[j].line
          /\ all_violations[j].file_path # all_violations[k].file_path

(***************************************************************************)
(* Properties of the create-task use case and of Task                      *)
(***************************************************************************)
\* C9: for every DTO with a non-blank title, execute returns a response
\* whose task_id find_by_id resolves to a stored task with the DTO's title
\* and description.
C9_CreateThenFetch ==
    (outcome \notin {"pending", "idle"} /\ ~IsBlank(dto.title)) =>
        /\ outcome = "returned"
        /\ find_by_id(repo_tasks, response.task_id) # NoTask
        /\ find_by_id(repo_tasks, response.task_id).title = dto.title
        /\ find_by_id(repo_tasks, response.task_id).description = dto.description

\* C10: every call that changes the task's status makes a transition
\* can_transition_to permits: never NOT_STARTED to COMPLETED, and never any
\* change out of COMPLETED.
C10_StatusTransitions ==
    [][task'.status # task.status => can_transition_to(task.status, task'.status)]_vars

C10_Witness ==
    /\ last_call = "mark_completed" /\ ~raised
    /\ prev_status = IN_PROGRESS
    /\ task.status = COMPLETED

====
